---- MODULE Spec2Model ----
(***************************************************************************)
(* Model of src/src/decomposition/simplex_regression_FW.cc (ACTIONet):     *)
(* the three simplex-regression solvers                                    *)
(*     run_simplex_regression_FW_base,                                     *)
(*     run_simplex_regression_FW_test1,                                    *)
(*     run_simplex_regression_FW.                                          *)
(*                                                                         *)
(* Numbers.  A double is modelled as an exact rational <<n, d>> with d > 0 *)
(* in lowest terms; the IEEE values the code can produce by dividing by    *)
(* zero are <<1,0>> (+inf), <<-1,0>> (-inf) and <<0,0>> (NaN).  Rounding   *)
(* error of double arithmetic is not modelled.  The `int` running minima   *)
(* of the index scans keep their C++ meaning: a double stored in them is   *)
(* truncated toward zero.                                                  *)
(*                                                                         *)
(* Indices are 1-based here (row i of the model is row i-1 of the code).   *)
(* A matrix is a record [r |-> rows, c |-> cols, e |-> entries] with       *)
(* e[i][j] the entry in row i and column j.                                *)
(*                                                                         *)
(* Armadillo (not part of the repository) is modelled by its documented    *)
(* behaviour with its default size checks enabled: cor(A,B) and A*B raise  *)
(* std::logic_error on incompatible sizes, index_max/index_min return the  *)
(* first extremal element and skip NaN, normalise(X,1) divides a column by *)
(* its 1-norm unless that norm is 0.  Inputs have at least two rows.       *)
(***************************************************************************)
EXTENDS Integers, Sequences, FiniteSets, TLC

VARIABLES fn, A, B, arg_max_iter, min_diff,
          pc, max_iter, X, old_X, grad, obj, it, k, iters, last, status, result

vars == <<fn, A, B, arg_max_iter, min_diff,
          pc, max_iter, X, old_X, grad, obj, it, k, iters, last, status, result>>

(***************************************************************************)
(* Bounds of the model.                                                    *)
(***************************************************************************)
\* largest max_iter argument tried
MaxIter == 4

(***************************************************************************)
(* Exact rational arithmetic with the IEEE special values.                 *)
(***************************************************************************)
Abs(n) == IF n < 0 THEN -n ELSE n

RECURSIVE GCD(_, _)
GCD(a, b) == IF b = 0 THEN a ELSE GCD(b, a % b)

\* the rational n/d (d # 0) in lowest terms with a positive denominator
Rat(n, d) ==
  LET s == IF d < 0 THEN -1 ELSE 1
      g == GCD(Abs(n), Abs(d))
  IN  <<(s * n) \div g, (s * d) \div g>>

Zero == <<0, 1>>
One == <<1, 1>>
PosInf == <<1, 0>>
NegInf == <<-1, 0>>
NaN == <<0, 0>>

FromInt(n) == <<n, 1>>
IsFinite(a) == a[2] # 0
IsNaN(a) == a = NaN

\* sums and products cancel common factors first, so that intermediate
\* integers stay small
RAdd(a, b) ==
  LET g == GCD(a[2], b[2])
  IN  Rat(a[1] * (b[2] \div g) + b[1] * (a[2] \div g), (a[2] \div g) * b[2])
RSub(a, b) == RAdd(a, <<-b[1], b[2]>>)
RMul(a, b) ==
  LET g1 == GCD(Abs(a[1]), b[2])
      g2 == GCD(Abs(b[1]), a[2])
  IN  Rat((a[1] \div g1) * (b[1] \div g2), (a[2] \div g2) * (b[2] \div g1))
RNeg(a) == <<-a[1], a[2]>>
RAbs(a) == <<Abs(a[1]), a[2]>>

\* a / b as IEEE double division does it: x/0 is +-inf, 0/0 is NaN
RDiv(a, b) ==
  IF b[1] = 0
  THEN (IF a[1] = 0 THEN NaN ELSE IF a[1] > 0 THEN PosInf ELSE NegInf)
  ELSE Rat(a[1] * b[2], a[2] * b[1])

\* a * b where b may be +inf (the mask of run_simplex_regression_FW_test1)
RMulExt(a, b) ==
  IF IsFinite(b) THEN RMul(a, b)
  ELSE IF a[1] = 0 THEN NaN
  ELSE IF (a[1] > 0) = (b[1] > 0) THEN PosInf ELSE NegInf

\* a < b on doubles: false as soon as one side is NaN
RLt(a, b) ==
  IF IsNaN(a) \/ IsNaN(b) THEN FALSE
  ELSE IF IsFinite(a) /\ IsFinite(b)
       THEN LET g == GCD(a[2], b[2])
            IN  a[1] * (b[2] \div g) < b[1] * (a[2] \div g)
  ELSE IF ~IsFinite(a) /\ ~IsFinite(b) THEN a[1] < b[1]
  ELSE IF ~IsFinite(a) THEN a[1] < 0
  ELSE b[1] > 0

RLe(a, b) == ~IsNaN(a) /\ ~IsNaN(b) /\ ~RLt(b, a)

\* std::min(a, b): b < a ? b : a
RMin(a, b) == IF RLt(b, a) THEN b ELSE a

\* (int) of a finite double: truncation toward zero
Trunc(a) == IF a[1] >= 0 THEN a[1] \div a[2] ELSE -((-a[1]) \div a[2])

RECURSIVE SumTo(_, _)
SumTo(f, n) == IF n = 0 THEN 0 ELSE f[n] + SumTo(f, n - 1)

RECURSIVE RSumTo(_, _)
RSumTo(f, n) == IF n = 0 THEN Zero ELSE RAdd(f[n], RSumTo(f, n - 1))

(***************************************************************************)
(* Dense matrices and vectors.                                             *)
(***************************************************************************)
IntMat(r, c, S) == {[r |-> r, c |-> c, e |-> e] : e \in [1..r -> [1..c -> S]]}

Column(M, j) == [i \in 1..M.r |-> M.e[i][j]]

WithColumn(M, j, v) ==
  [M EXCEPT !.e = [i \in 1..M.r |-> [M.e[i] EXCEPT ![j] = v[i]]]]

RDot(u, v, n) == RSumTo([i \in 1..n |-> RMul(u[i], v[i])], n)

\* trans(A) * A, k x k
AtA(a) ==
  [r |-> a.c, c |-> a.c,
   e |-> [i \in 1..a.c |-> [l \in 1..a.c |->
            SumTo([f \in 1..a.r |-> a.e[f][i] * a.e[f][l]], a.r)]]]

\* trans(A) * B, k x n; Armadillo refuses the product unless A.rows = B.rows
AtB(a, b) ==
  [r |-> a.c, c |-> b.c,
   e |-> [i \in 1..a.c |-> [j \in 1..b.c |->
            SumTo([f \in 1..a.r |-> a.e[f][i] * b.e[f][j]], a.r)]]]

\* (AtA * X) - AtB, k x n
Gradient(a, b, x) ==
  LET G == AtA(a)
      H == AtB(a, b)
  IN  [r |-> x.r, c |-> x.c,
       e |-> [i \in 1..x.r |-> [j \in 1..x.c |->
                RSub(RSumTo([l \in 1..x.r |-> RMul(FromInt(G.e[i][l]), x.e[l][j])], x.r),
                     FromInt(H.e[i][j]))]]]

\* A * X - B, features x n
Residual(a, b, x) ==
  [r |-> a.r, c |-> x.c,
   e |-> [f \in 1..a.r |-> [j \in 1..x.c |->
            RSub(RSumTo([l \in 1..a.c |-> RMul(FromInt(a.e[f][l]), x.e[l][j])], a.c),
                 FromInt(b.e[f][j]))]]]

\* A * d for a vector d of length k
MatVec(a, d) ==
  [f \in 1..a.r |-> RSumTo([l \in 1..a.c |-> RMul(FromInt(a.e[f][l]), d[l])], a.c)]

ColSum(M, j) == RSumTo(Column(M, j), M.r)

\* the empty matrix held by locals that are not yet assigned
NoMat == [r |-> 0, c |-> 0, e |-> <<>>]

(***************************************************************************)
(* cor(A, B) and the vertex initializer.                                   *)
(* cor(A,B)(i,j) is the Pearson correlation of column i of A and column j  *)
(* of B over the N rows: cov / (sd_i * sd_j).  With                        *)
(*   CovN = N*sum(a*b) - sum(a)*sum(b),  VarN = N*sum(a*a) - sum(a)^2      *)
(* it equals CovN / sqrt(VarN_i * VarN_j), and 0/0 = NaN when a column is  *)
(* constant.  For a fixed j two correlations compare as                    *)
(*   sgn(c)c^2 / VarN_i  does, which needs no square root.                 *)
(***************************************************************************)
ColTotal(M, j) == SumTo([f \in 1..M.r |-> M.e[f][j]], M.r)

CovN(a, b, i, j) ==
  a.r * SumTo([f \in 1..a.r |-> a.e[f][i] * b.e[f][j]], a.r)
    - ColTotal(a, i) * ColTotal(b, j)

VarN(M, j) ==
  M.r * SumTo([f \in 1..M.r |-> M.e[f][j] * M.e[f][j]], M.r)
    - ColTotal(M, j) * ColTotal(M, j)

CorIsNaN(a, b, i, j) == VarN(a, i) = 0 \/ VarN(b, j) = 0

SignedSquare(c) == IF c < 0 THEN -(c * c) ELSE c * c

\* cor(i, j) > cor(l, j), both not NaN
CorGreater(a, b, i, l, j) ==
  SignedSquare(CovN(a, b, i, j)) * VarN(a, l)
    > SignedSquare(CovN(a, b, l, j)) * VarN(a, i)

\* index_max(tmp.col(j)): first row holding the largest value; the running
\* maximum starts at -inf and a NaN never exceeds it (best = 0: none yet)
RECURSIVE CorIndexMaxFrom(_, _, _, _, _)
CorIndexMaxFrom(a, b, j, i, best) ==
  IF i > a.c THEN (IF best = 0 THEN 1 ELSE best)
  ELSE IF ~CorIsNaN(a, b, i, j) /\ (best = 0 \/ CorGreater(a, b, i, best, j))
       THEN CorIndexMaxFrom(a, b, j, i + 1, i)
       ELSE CorIndexMaxFrom(a, b, j, i + 1, best)

\* index_max_cor replaced by the fixed row 0 (X(0, j) = 1)
index_max_cor_RowZero(a, b, j) == 1

index_max_cor(a, b, j) == CorIndexMaxFrom(a, b, j, 1, 0)

\* InitialVertices that leaves X = zeros(size(tmp))
InitialVertices_Zeros(a, b) ==
  [r |-> a.c, c |-> b.c, e |-> [i \in 1..a.c |-> [j \in 1..b.c |-> Zero]]]

\* X = zeros(size(tmp)); X(index_max(tmp.col(j)), j) = 1 for every column j
InitialVertices(a, b) ==
  [r |-> a.c, c |-> b.c,
   e |-> [i \in 1..a.c |-> [j \in 1..b.c |->
            IF i = index_max_cor(a, b, j) THEN One ELSE Zero]]]

\* X = zeros(A.n_cols, B.n_cols); X.row(0).ones()
FirstRowOnes(a, b) ==
  [r |-> a.c, c |-> b.c,
   e |-> [i \in 1..a.c |-> [j \in 1..b.c |-> IF i = 1 THEN One ELSE Zero]]]

\* DefaultMaxIter taking every max_iter <= 0 as "use k"
DefaultMaxIter_NonPositive(m, a) == IF m <= 0 THEN a.c ELSE m

\* if(max_iter == -1) max_iter = A.n_cols
DefaultMaxIter(m, a) == IF m = -1 THEN a.c ELSE m

\* LoopTest off by one
LoopTest_Inclusive(i, m) == i <= m

\* the test of the outer loop: it < max_iter
LoopTest(i, m) == i < m

(***************************************************************************)
(* The index scan of run_simplex_regression_FW_base and                    *)
(* run_simplex_regression_FW: i1, i2 start at row 0, the running minima    *)
(* i1_val, i2_val are C++ ints starting at 1000.                           *)
(***************************************************************************)
ScanStart == 1000

ScanStep(s, g, x, i) ==
  LET a == IF RLt(g[i], FromInt(s.i1_val))
           THEN [s EXCEPT !.i1_val = Trunc(g[i]), !.i1 = i]
           ELSE s
  IN  IF RLt(Zero, x[i]) /\ RLt(g[i], FromInt(a.i2_val))
      THEN [a EXCEPT !.i2_val = Trunc(g[i]), !.i2 = i]
      ELSE a

RECURSIVE ScanFrom(_, _, _, _, _)
ScanFrom(s, g, x, i, n) ==
  IF i > n THEN s ELSE ScanFrom(ScanStep(s, g, x, i), g, x, i + 1, n)

Scan(g, x, n) ==
  ScanFrom([i1 |-> 1, i2 |-> 1, i1_val |-> ScanStart, i2_val |-> ScanStart], g, x, 1, n)

\* DirFW without d_FW = -x: the vertex e_i1 itself
DirFW_VertexOnly(x, i1, n) == [i \in 1..n |-> IF i = i1 THEN One ELSE Zero]

\* d_FW = -x; d_FW(i1) = 1 + d_FW(i1)
DirFW(x, i1, n) == [i \in 1..n |-> IF i = i1 THEN RAdd(One, RNeg(x[i])) ELSE RNeg(x[i])]

\* d_A = x; d_A(i2) = d_A(i2) - 1
DirA(x, i2, n) == [i \in 1..n |-> IF i = i2 THEN RSub(x[i], One) ELSE x[i]]

\* x + alpha * d
Move(x, alpha, d, n) == [i \in 1..n |-> RAdd(x[i], RMul(alpha, d[i]))]

\* TakeForward with the comparison turned round
TakeForward_Reversed(g, dfw, da, n) == RLt(RDot(g, da, n), RDot(g, dfw, n))

\* true when the forward direction is taken: dot(g, d_FW) < dot(g, d_A)
TakeForward(g, dfw, da, n) == RLt(RDot(g, dfw, n), RDot(g, da, n))

\* double alpha = 2.0 / (it + 2)
StepBase(itr) == Rat(2, itr + 2)

\* double alpha = 2 / (it + 2): an int division, converted afterwards
StepFW(itr) == FromInt(2 \div (itr + 2))

\* one pass of the column loop body of run_simplex_regression_FW_base
ColumnBase(g, x, itr, n) ==
  LET s == Scan(g, x, n)
      dfw == DirFW(x, s.i1, n)
      da == DirA(x, s.i2, n)
      fwd == TakeForward(g, dfw, da, n)
      d == IF fwd THEN dfw ELSE da
      amax == IF fwd THEN One ELSE RDiv(x[s.i1], RSub(One, x[s.i1]))
      alpha == StepBase(itr)
  IN  [i1 |-> s.i1, i2 |-> s.i2, forward |-> fwd, d |-> d,
       alpha_max |-> amax, alpha |-> alpha, x |-> Move(x, alpha, d, n)]

\* one pass of the column loop body of run_simplex_regression_FW; the
\* assignment X.col(k) = x + alpha*d is commented out there
ColumnFW(g, x, itr, n) ==
  LET s == Scan(g, x, n)
      dfw == DirFW(x, s.i1, n)
      da == DirA(x, s.i2, n)
      fwd == TakeForward(g, dfw, da, n)
      d == IF fwd THEN dfw ELSE da
      amax == IF fwd THEN One ELSE RDiv(x[s.i2], RSub(One, x[s.i2]))
      alpha == RMin(StepFW(itr), amax)
  IN  [i1 |-> s.i1, i2 |-> s.i2, forward |-> fwd, d |-> d,
       alpha_max |-> amax, alpha |-> alpha, x |-> x]

(***************************************************************************)
(* run_simplex_regression_FW_test1: index_min on the gradient and on the   *)
(* gradient masked by (X == 0 ? inf : 1), then a line search.              *)
(***************************************************************************)
\* index_min of a column: first row holding the smallest value; the running
\* minimum starts at +inf and a NaN is never smaller (best = 0: none yet)
RECURSIVE IndexMinFrom(_, _, _, _)
IndexMinFrom(v, n, i, best) ==
  IF i > n THEN (IF best = 0 THEN 1 ELSE best)
  ELSE IF RLt(v[i], IF best = 0 THEN PosInf ELSE v[best])
       THEN IndexMinFrom(v, n, i + 1, i)
       ELSE IndexMinFrom(v, n, i + 1, best)

index_min(v, n) == IndexMinFrom(v, n, 1, 0)

Mask(x, n) == [i \in 1..n |-> IF x[i] = Zero THEN PosInf ELSE One]

MaskedGrad(g, x, n) == [i \in 1..n |-> RMulExt(g[i], Mask(x, n)[i])]

\* alpha of the line search: 0 unless e1 # 0, then (e3 - e2) / e1
LineSearch(a, g, o, d, n) ==
  LET Ad == MatVec(a, d)
      e1 == RDot(Ad, Ad, a.r)
      e2 == RMul(FromInt(2), RDot(o, Ad, a.r))
      e3 == RMul(Rat(1, 2), RDot(g, d, n))
  IN  IF e1 # Zero THEN RDiv(RSub(e3, e2), e1) ELSE Zero

\* the work run_simplex_regression_FW_test1 does for one column: its share of
\* the D_FW / D_A / alpha_caps loop (taken from the column as it is when the
\* outer iteration starts; no earlier column pass writes it) and its pass of
\* the column loop
ColumnTest1(a, g, o, x, n) ==
  LET ii1 == index_min(g, n)
      ii2 == index_min(MaskedGrad(g, x, n), n)
      cap == RDiv(x[ii1], RSub(One, x[ii1]))
      dfw == DirFW(x, ii1, n)
      da == DirA(x, ii2, n)
      fwd == TakeForward(g, dfw, da, n)
      d == IF fwd THEN dfw ELSE da
      amax == IF fwd THEN One ELSE cap
      alpha == RMin(LineSearch(a, g, o, d, n), amax)
  IN  [i1 |-> ii1, i2 |-> ii2, forward |-> fwd, d |-> d,
       alpha_max |-> amax, alpha |-> alpha, x |-> Move(x, alpha, d, n)]

\* PassBase with x read from the first column of X instead of column j
PassBase_ReadsFirstColumn(x, g, itr, j) ==
  WithColumn(x, j, ColumnBase(Column(g, j), Column(x, 1), itr, x.r).x)

\* X after the pass of run_simplex_regression_FW_base's column loop for
\* column j: g = grad.col(j), x = X.col(j), X.col(j) = x + alpha*d
PassBase(x, g, itr, j) ==
  WithColumn(x, j, ColumnBase(Column(g, j), Column(x, j), itr, x.r).x)

\* X after the pass of run_simplex_regression_FW_test1's column loop for
\* column j
PassTest1(a, x, g, o, j) ==
  WithColumn(x, j, ColumnTest1(a, Column(g, j), Column(o, j), Column(x, j), x.r).x)

(***************************************************************************)
(* Convergence measure and post-projection.                                *)
(***************************************************************************)
\* sum(sum(abs(old_X - X))) / X.n_cols
ChangeBase(o, x) ==
  RDiv(RSumTo([j \in 1..x.c |->
                 RSumTo([i \in 1..x.r |-> RAbs(RSub(o.e[i][j], x.e[i][j]))], x.r)], x.c),
       FromInt(x.c))

\* clamp(X, 0, 1)
Clamp(x) ==
  [x EXCEPT !.e = [i \in 1..x.r |-> [j \in 1..x.c |->
     IF RLt(x.e[i][j], Zero) THEN Zero
     ELSE IF RLt(One, x.e[i][j]) THEN One ELSE x.e[i][j]]]]

\* normalise(X, 1): every column divided by its 1-norm, left alone if that is 0
Normalise(x) ==
  LET nrm(j) == RSumTo([i \in 1..x.r |-> RAbs(x.e[i][j])], x.r)
  IN  [x EXCEPT !.e = [i \in 1..x.r |-> [j \in 1..x.c |->
         IF nrm(j) = Zero THEN x.e[i][j] ELSE RDiv(x.e[i][j], nrm(j))]]]

\* PostProject without the clamp
PostProject_NoClamp(x) == Normalise(x)

PostProject(x) == Normalise(Clamp(x))

(***************************************************************************)
(* Inputs.                                                                 *)
(***************************************************************************)
Functions == {"FW_base", "FW_test1", "FW"}

Bits == {0, 1}

\* the pairs <<A, B>> tried: 2x2 with 2x1, 3x2 with 3x1, 2x3 with 2x1,
\* 2x2 with 2x2, and one shape where A has two rows and B three
MatrixPairs ==
  (IntMat(2, 2, {-1, 0, 2}) \X IntMat(2, 1, {-1, 0, 1}))
    \cup (IntMat(3, 2, Bits) \X IntMat(3, 1, Bits))
    \cup (IntMat(2, 3, Bits) \X IntMat(2, 1, Bits))
    \cup (IntMat(2, 2, Bits) \X IntMat(2, 2, Bits))
    \cup (IntMat(2, 1, Bits) \X IntMat(3, 1, Bits))

\* the max_iter arguments tried
MaxIterArgs == {-2, -1, 0, 1, MaxIter}

\* min_diff
MinDiffs == {Rat(-1, 100), Zero, Rat(1, 100)}

\* only run_simplex_regression_FW_base reads min_diff (res < min_diff); the
\* two functions that ignore it are called with the values >= 0
MinDiffsFor(f) ==
  IF f = "FW_base" THEN MinDiffs ELSE {m \in MinDiffs : RLe(Zero, m)}

NoLast == [i1 |-> 0, i2 |-> 0, forward |-> FALSE, d |-> <<>>,
           alpha_max |-> Zero, alpha |-> Zero, x |-> <<>>]

Init ==
  /\ fn \in Functions
  /\ \E ab \in MatrixPairs :
       /\ A = ab[1]
       /\ B = ab[2]
  /\ arg_max_iter \in MaxIterArgs
  /\ min_diff \in MinDiffsFor(fn)
  /\ pc = "start"
  /\ max_iter = arg_max_iter
  /\ X = NoMat
  /\ old_X = NoMat
  /\ grad = NoMat
  /\ obj = NoMat
  /\ it = 0
  /\ k = 0
  /\ iters = 0
  /\ last = NoLast
  /\ status = "running"
  /\ result = NoMat

inputs == <<fn, A, B, arg_max_iter, min_diff>>

(***************************************************************************)
(* run_simplex_regression_FW_base                                          *)
(***************************************************************************)
\* lines 16-36: default max_iter, cor(A, B), the vertex initializer
FW_base_Init ==
  /\ fn = "FW_base" /\ pc = "start"
  /\ IF A.r # B.r
     THEN /\ pc' = "failed"
          /\ status' = "DimensionMismatch"
          /\ UNCHANGED <<X, old_X>>
     ELSE /\ X' = InitialVertices(A, B)
          /\ old_X' = X'
          /\ pc' = "loop"
          /\ UNCHANGED status
  /\ max_iter' = DefaultMaxIter(max_iter, A)
  /\ UNCHANGED <<inputs, grad, obj, it, k, iters, last, result>>

\* lines 37-39: the loop test holds; grad and obj of this outer iteration
FW_base_Gradient ==
  /\ fn = "FW_base" /\ pc = "loop" /\ LoopTest(it, max_iter)
  /\ grad' = Gradient(A, B, X)
  /\ obj' = Residual(A, B, X)
  /\ k' = 1
  /\ iters' = iters + 1
  /\ pc' = "column"
  /\ UNCHANGED <<inputs, max_iter, X, old_X, it, last, status, result>>

\* line 37: the loop test fails
FW_base_LoopExit ==
  /\ fn = "FW_base" /\ pc = "loop" /\ ~LoopTest(it, max_iter)
  /\ pc' = "post"
  /\ UNCHANGED <<inputs, max_iter, X, old_X, grad, obj, it, k, iters, last, status, result>>

\* lines 41-92: the body of the column loop for column k
FW_base_Column ==
  /\ fn = "FW_base" /\ pc = "column"
  /\ last' = ColumnBase(Column(grad, k), Column(X, k), it, X.r)
  /\ X' = PassBase(X, grad, it, k)
  /\ k' = k + 1
  /\ pc' = IF k = X.c THEN "check" ELSE "column"
  /\ UNCHANGED <<inputs, max_iter, old_X, grad, obj, it, iters, status, result>>

\* FW_base_Check with the exit test left out
FW_base_Check_NoExit ==
  /\ fn = "FW_base" /\ pc = "check"
  /\ old_X' = X
  /\ it' = it + 1
  /\ pc' = "loop"
  /\ UNCHANGED <<inputs, max_iter, X, grad, obj, k, iters, last, status, result>>

\* FW_base_Check with the exit test res <= min_diff
FW_base_Check_NonStrict ==
  /\ fn = "FW_base" /\ pc = "check"
  /\ IF RLe(ChangeBase(old_X, X), min_diff)
     THEN /\ pc' = "post"
          /\ UNCHANGED <<old_X, it>>
     ELSE /\ old_X' = X
          /\ it' = it + 1
          /\ pc' = "loop"
  /\ UNCHANGED <<inputs, max_iter, X, grad, obj, k, iters, last, status, result>>

\* lines 94-101: res, the early exit, old_X = X, it++
FW_base_Check ==
  /\ fn = "FW_base" /\ pc = "check"
  /\ IF RLt(ChangeBase(old_X, X), min_diff)
     THEN /\ pc' = "post"
          /\ UNCHANGED <<old_X, it>>
     ELSE /\ old_X' = X
          /\ it' = it + 1
          /\ pc' = "loop"
  /\ UNCHANGED <<inputs, max_iter, X, grad, obj, k, iters, last, status, result>>

\* lines 104-107: clamp, normalise, return
FW_base_Post ==
  /\ fn = "FW_base" /\ pc = "post"
  /\ X' = PostProject(X)
  /\ result' = X'
  /\ status' = "returned"
  /\ pc' = "done"
  /\ UNCHANGED <<inputs, max_iter, old_X, grad, obj, it, k, iters, last>>

(***************************************************************************)
(* run_simplex_regression_FW_test1                                         *)
(***************************************************************************)
\* lines 113-144: default max_iter, X with its first row set to one
FW_test1_Init ==
  /\ fn = "FW_test1" /\ pc = "start"
  /\ max_iter' = DefaultMaxIter(max_iter, A)
  /\ X' = FirstRowOnes(A, B)
  /\ old_X' = X'
  /\ pc' = "loop"
  /\ UNCHANGED <<inputs, grad, obj, it, k, iters, last, status, result>>

\* lines 145-147: the loop test holds; At * B raises on a row mismatch
FW_test1_Gradient ==
  /\ fn = "FW_test1" /\ pc = "loop" /\ LoopTest(it, max_iter)
  /\ IF A.r # B.r
     THEN /\ pc' = "failed"
          /\ status' = "DimensionMismatch"
          /\ UNCHANGED <<grad, obj, k, iters>>
     ELSE /\ grad' = Gradient(A, B, X)
          /\ obj' = Residual(A, B, X)
          /\ k' = 1
          /\ iters' = iters + 1
          /\ pc' = "column"
          /\ UNCHANGED status
  /\ UNCHANGED <<inputs, max_iter, X, old_X, it, last, result>>

\* line 145: the loop test fails
FW_test1_LoopExit ==
  /\ fn = "FW_test1" /\ pc = "loop" /\ ~LoopTest(it, max_iter)
  /\ pc' = "post"
  /\ UNCHANGED <<inputs, max_iter, X, old_X, grad, obj, it, k, iters, last, status, result>>

\* lines 149-195: masks, index_min, caps and the column loop body for column k
FW_test1_Column ==
  /\ fn = "FW_test1" /\ pc = "column"
  /\ last' = ColumnTest1(A, Column(grad, k), Column(obj, k), Column(X, k), X.r)
  /\ X' = PassTest1(A, X, grad, obj, k)
  /\ k' = k + 1
  /\ pc' = IF k = X.c THEN "check" ELSE "column"
  /\ UNCHANGED <<inputs, max_iter, old_X, grad, obj, it, iters, status, result>>

\* lines 197-206: the exit test is commented out; old_X = X, it++
FW_test1_Check ==
  /\ fn = "FW_test1" /\ pc = "check"
  /\ old_X' = X
  /\ it' = it + 1
  /\ pc' = "loop"
  /\ UNCHANGED <<inputs, max_iter, X, grad, obj, k, iters, last, status, result>>

\* lines 209-214: clamp and normalise are commented out; return X
FW_test1_Return ==
  /\ fn = "FW_test1" /\ pc = "post"
  /\ result' = X
  /\ status' = "returned"
  /\ pc' = "done"
  /\ UNCHANGED <<inputs, max_iter, X, old_X, grad, obj, it, k, iters, last>>

(***************************************************************************)
(* run_simplex_regression_FW                                               *)
(***************************************************************************)
\* lines 317-338
FW_Init ==
  /\ fn = "FW" /\ pc = "start"
  /\ IF A.r # B.r
     THEN /\ pc' = "failed"
          /\ status' = "DimensionMismatch"
          /\ UNCHANGED <<X, old_X>>
     ELSE /\ X' = InitialVertices(A, B)
          /\ old_X' = X'
          /\ pc' = "loop"
          /\ UNCHANGED status
  /\ max_iter' = DefaultMaxIter(max_iter, A)
  /\ UNCHANGED <<inputs, grad, obj, it, k, iters, last, result>>

\* lines 339-346
FW_Gradient ==
  /\ fn = "FW" /\ pc = "loop" /\ LoopTest(it, max_iter)
  /\ grad' = Gradient(A, B, X)
  /\ obj' = Residual(A, B, X)
  /\ k' = 1
  /\ iters' = iters + 1
  /\ pc' = "column"
  /\ UNCHANGED <<inputs, max_iter, X, old_X, it, last, status, result>>

\* line 339: the loop test fails
FW_LoopExit ==
  /\ fn = "FW" /\ pc = "loop" /\ ~LoopTest(it, max_iter)
  /\ pc' = "post"
  /\ UNCHANGED <<inputs, max_iter, X, old_X, grad, obj, it, k, iters, last, status, result>>

\* lines 348-422: the column loop body; X.col(k) is not assigned
FW_Column ==
  /\ fn = "FW" /\ pc = "column"
  /\ LET c == ColumnFW(Column(grad, k), Column(X, k), it, X.r)
     IN  /\ last' = c
         /\ X' = WithColumn(X, k, c.x)
  /\ k' = k + 1
  /\ pc' = IF k = X.c THEN "check" ELSE "column"
  /\ UNCHANGED <<inputs, max_iter, old_X, grad, obj, it, iters, status, result>>

\* FW_Check with the exit test of lines 431-433 in force
FW_Check_EarlyExit ==
  /\ fn = "FW" /\ pc = "check"
  /\ IF RLt(ChangeBase(old_X, X), min_diff)
     THEN /\ pc' = "post"
          /\ UNCHANGED <<old_X, it>>
     ELSE /\ old_X' = X
          /\ it' = it + 1
          /\ pc' = "loop"
  /\ UNCHANGED <<inputs, max_iter, X, grad, obj, k, iters, last, status, result>>

\* lines 424-436: res is printed, the exit test is commented out
FW_Check ==
  /\ fn = "FW" /\ pc = "check"
  /\ old_X' = X
  /\ it' = it + 1
  /\ pc' = "loop"
  /\ UNCHANGED <<inputs, max_iter, X, grad, obj, k, iters, last, status, result>>

\* lines 441-444
FW_Post ==
  /\ fn = "FW" /\ pc = "post"
  /\ X' = PostProject(X)
  /\ result' = X'
  /\ status' = "returned"
  /\ pc' = "done"
  /\ UNCHANGED <<inputs, max_iter, old_X, grad, obj, it, k, iters, last>>

Next ==
  \/ FW_base_Init \/ FW_base_Gradient \/ FW_base_LoopExit
  \/ FW_base_Column \/ FW_base_Check \/ FW_base_Post
  \/ FW_test1_Init \/ FW_test1_Gradient \/ FW_test1_LoopExit
  \/ FW_test1_Column \/ FW_test1_Check \/ FW_test1_Return
  \/ FW_Init \/ FW_Gradient \/ FW_LoopExit
  \/ FW_Column \/ FW_Check \/ FW_Post

Spec == Init /\ [][Next]_vars

(***************************************************************************)
(* Properties.                                                             *)
(***************************************************************************)
NonNegative(x) == \A i \in 1..x.r : \A j \in 1..x.c : RLe(Zero, x.e[i][j])

AtMostOne(x) == \A i \in 1..x.r : \A j \in 1..x.c : RLe(x.e[i][j], One)

ColumnsSumToOne(x) == \A j \in 1..x.c : ColSum(x, j) = One

\* every column is a point of the simplex
IsSimplex(x) == NonNegative(x) /\ ColumnsSumToOne(x)

OneHotAt(x, j, p) == \A i \in 1..x.r : x.e[i][j] = IF i = p THEN One ELSE Zero

\* every column is a vertex of the simplex
IsOneHot(x) == \A j \in 1..x.c : \E p \in 1..x.r : OneHotAt(x, j, p)

Returned == pc = "done" /\ status = "returned"

\* C1: for matching row counts and max_iter >= 0, the matrix returned by
\* run_simplex_regression_FW_base and by run_simplex_regression_FW is k x n
\* and every column has all entries in [0,1] and sums to 1.
C1_ReturnedFeasible ==
  (fn \in {"FW_base", "FW"} /\ Returned /\ A.r = B.r /\ arg_max_iter >= 0)
    => /\ result.r = A.c /\ result.c = B.c
       /\ NonNegative(result) /\ AtMostOne(result) /\ ColumnsSumToOne(result)

\* C1 witness: run_simplex_regression_FW_base has returned after an outer
\* iteration that left a negative entry in X, so the clamp had work to do.
C1_Witness ==
  /\ fn = "FW_base" /\ Returned /\ arg_max_iter >= 0 /\ iters >= 1
  /\ \E i \in 1..A.c : RLt(last.x[i], Zero)
  /\ NonNegative(result) /\ ColumnsSumToOne(result)

\* C2: in run_simplex_regression_FW_base, before the first outer iteration
\* and after every outer iteration, every column of X is a simplex point
\* (entries >= 0, sum 1), before any clamp or normalise.
C2_SimplexAtBoundaries ==
  (fn = "FW_base" /\ pc \in {"loop", "check"}) => IsSimplex(X)

\* C3: when A.rows # B.rows no outer iteration executes and the caller
\* receives no X: the call fails with the dimension-mismatch error.
C3_MismatchFailsFast ==
  (A.r # B.r) => /\ iters = 0
                 /\ status # "returned"
                 /\ result = NoMat

\* column j of B has zero covariance, hence zero or undefined correlation,
\* with every column of A
DegenerateColumn(j) == \A i \in 1..A.c : CovN(A, B, i, j) = 0

\* C4: a target column with zero correlation to every dictionary vector makes
\* run_simplex_regression_FW_base fail (DegenerateInput); no X is returned.
C4_DegenerateFails ==
  (fn = "FW_base" /\ A.r = B.r /\ \E j \in 1..B.c : DegenerateColumn(j))
    => status # "returned"

\* the change measure of the outer iteration just finished is below min_diff
BelowMinDiff == RLt(ChangeBase(old_X, X), min_diff)

\* C5 as stated: in run_simplex_regression_FW_base, an outer iteration whose
\* change measure is below min_diff is the last one, fewer than max_iter outer
\* iterations have then been performed, and the X of that iteration is
\* post-projected and returned.
C5_EarlyExitFewerIterations ==
  [][(fn = "FW_base" /\ pc = "check" /\ BelowMinDiff)
       => (pc' = "post" /\ X' = X /\ iters' = iters /\ iters < max_iter)]_vars
  /\ [][(fn = "FW_base" /\ pc = "post")
          => (pc' = "done" /\ status' = "returned" /\ iters' = iters
              /\ result' = PostProject(X))]_vars

\* C5 amended: in run_simplex_regression_FW_base, an outer iteration whose
\* change measure is below min_diff is the last one; at most max_iter outer
\* iterations have then been performed, fewer unless that iteration is the
\* max_iter-th; the X of that iteration is post-projected and returned.
C5_EarlyExit ==
  [][(fn = "FW_base" /\ pc = "check" /\ BelowMinDiff)
       => (pc' = "post" /\ X' = X /\ iters' = iters /\ iters = it + 1
           /\ iters <= max_iter /\ (it + 1 < max_iter => iters < max_iter))]_vars
  /\ [][(fn = "FW_base" /\ pc = "post")
          => (pc' = "done" /\ status' = "returned" /\ iters' = iters
              /\ result' = PostProject(X))]_vars

\* C5 witness: the exit test has ended the loop before max_iter iterations
\* and the matrix has been returned.
C5_Witness ==
  /\ fn = "FW_base" /\ Returned /\ iters >= 1 /\ iters < max_iter /\ it < max_iter

\* an upper bound on the steps run_simplex_regression_FW_base still takes:
\* Gradient, one Column per column of B and Check for each remaining outer
\* iteration, then LoopExit and Post
StepsLeft ==
  LET lim == DefaultMaxIter(max_iter, A)
      rem == IF lim > it THEN lim - it ELSE 0
      w == B.c + 2
  IN  CASE pc = "start" -> rem * w + 3
        [] pc = "loop" -> rem * w + 2
        [] pc = "column" -> (rem - 1) * w + 2 + (B.c - k + 1) + 1
        [] pc = "check" -> (rem - 1) * w + 2 + 1
        [] pc = "post" -> 1
        [] OTHER -> 0

\* C6: for max_iter >= 0, run_simplex_regression_FW_base executes at most
\* max_iter outer iterations and terminates: every step lowers the bound on
\* the steps left, which is 0 only once the call is over.  When the loop runs
\* out without the exit test firing, the post-projected X is returned and no
\* error is raised.
C6_BoundedIterations ==
  [][(fn = "FW_base" /\ arg_max_iter >= 0)
       => /\ iters' <= arg_max_iter
          /\ StepsLeft' < StepsLeft
          /\ StepsLeft' >= 0
          /\ (StepsLeft' = 0) = (pc' \in {"done", "failed"})
          /\ pc' \in {"loop", "column", "check", "post", "done", "failed"}
          /\ (pc' = "failed" => A.r # B.r)
          /\ ((pc' = "post" /\ ~LoopTest(it', max_iter'))
                => (iters' = arg_max_iter /\ status' = "running"))
          /\ (pc = "post"
                => (pc' = "done" /\ status' = "returned"
                    /\ result' = PostProject(X)))]_vars

\* C6 witness: max_iter outer iterations were executed, the exit test never
\* fired, and the matrix was returned.
C6_Witness ==
  /\ fn = "FW_base" /\ Returned /\ arg_max_iter = MaxIter
  /\ iters = arg_max_iter /\ it = max_iter

\* C7 as stated: every max_iter <= 0 is replaced by k = A.n_cols.
C7_NonPositiveMeansK ==
  (fn \in {"FW_base", "FW"} /\ pc # "start" /\ arg_max_iter <= 0) => max_iter = A.c

\* C7 amended: max_iter = -1 is replaced by k = A.n_cols; every other value,
\* 0 and -2 included, is kept, and a kept value <= 0 runs no outer iteration.
C7_MinusOneMeansK ==
  (fn \in {"FW_base", "FW"} /\ pc # "start")
    => /\ (arg_max_iter = -1 => max_iter = A.c)
       /\ (arg_max_iter # -1 => max_iter = arg_max_iter)
       /\ (arg_max_iter <= 0 /\ arg_max_iter # -1 => iters = 0)
       /\ iters <= IF max_iter < 0 THEN 0 ELSE max_iter

\* C7 witness: called with max_iter = -1, the solver has run k outer iterations.
C7_Witness ==
  /\ fn \in {"FW_base", "FW"} /\ Returned /\ arg_max_iter = -1
  /\ max_iter = A.c /\ iters = A.c

\* C8: with max_iter = 0 no outer iteration is executed and the returned
\* matrix is the post-projected output of the initializer, k x n, every
\* column with one entry 1 and the rest 0.
C8_ZeroIterations ==
  (fn \in {"FW_base", "FW"} /\ arg_max_iter = 0 /\ A.r = B.r)
    => /\ iters = 0
       /\ pc \in {"start", "loop", "post", "done"}
       /\ Returned => /\ result.r = A.c /\ result.c = B.c
                      /\ IsOneHot(result)
                      /\ \A j \in 1..B.c : OneHotAt(result, j, index_max_cor(A, B, j))

\* C8 witness: a call with max_iter = 0 has returned.
C8_Witness ==
  /\ fn = "FW_base" /\ arg_max_iter = 0 /\ Returned /\ result.r = A.c /\ result.c = B.c

\* every column of B equals some column of A
Selects ==
  A.r = B.r /\ \A j \in 1..B.c : \E p \in 1..A.c : \A f \in 1..A.r : A.e[f][p] = B.e[f][j]

\* C9: if every column of B equals a column of A, the matrix returned by
\* run_simplex_regression_FW_base has, in each column j, a single 1 at a row p
\* with A.col(p) = B.col(j).
C9_ExactRecovery ==
  (fn = "FW_base" /\ Returned /\ Selects)
    => \A j \in 1..B.c : \E p \in 1..A.c :
         /\ OneHotAt(result, j, p)
         /\ \A f \in 1..A.r : A.e[f][p] = B.e[f][j]

\* ||A*X - B||_F squared
SquaredError(x) ==
  LET R == Residual(A, B, x)
  IN  RSumTo([j \in 1..R.c |->
               RSumTo([f \in 1..R.r |-> RMul(R.e[f][j], R.e[f][j])], R.r)], R.c)

\* C10: in run_simplex_regression_FW_base the reconstruction error at the end
\* of an outer iteration is at most the error at the end of the one before.
C10_ErrorNonIncreasing ==
  (fn = "FW_base" /\ pc = "check" /\ it >= 1)
    => RLe(SquaredError(X), SquaredError(old_X))

\* the orders in which the n columns can be processed
Orders(n) == {p \in [1..n -> 1..n] : \A i, j \in 1..n : p[i] = p[j] => i = j}

\* X after the column passes ord[i], ord[i+1], ... of the current outer
\* iteration, all of them reading the snapshots grad and obj
RECURSIVE PassesInOrder(_, _, _)
PassesInOrder(x, ord, i) ==
  IF i > x.c THEN x
  ELSE PassesInOrder(IF fn = "FW_base" THEN PassBase(x, grad, it, ord[i])
                     ELSE PassTest1(A, x, grad, obj, ord[i]),
                     ord, i + 1)

CorDefined(i, j) == ~CorIsNaN(A, B, i, j)

\* row p holds the highest correlation score of column j: the first row
\* among those with a defined score that no defined score exceeds; row 0 when
\* no row has a defined score
HighestScore(p, j) ==
  IF \E i \in 1..A.c : CorDefined(i, j)
  THEN /\ CorDefined(p, j)
       /\ \A i \in 1..A.c : CorDefined(i, j) => ~CorGreater(A, B, i, p, j)
       /\ \A i \in 1..(p - 1) : CorDefined(i, j) => CorGreater(A, B, p, i, j)
  ELSE p = 1

\* C12: the initializer of run_simplex_regression_FW_base and
\* run_simplex_regression_FW leaves a k x n matrix X0 whose every column j
\* has one entry 1, at the row with the highest correlation score for
\* column j, and 0 elsewhere.
C12_InitializerOneHot ==
  (fn \in {"FW_base", "FW"} /\ pc = "loop" /\ iters = 0)
    => /\ X.r = A.c /\ X.c = B.c
       /\ \A j \in 1..B.c : \E p \in 1..A.c : OneHotAt(X, j, p) /\ HighestScore(p, j)

\* C12 witness: the initializer has put the 1 of some column at a row other
\* than row 0, whose score is defined and exceeds the defined score of row 0.
C12_Witness ==
  /\ fn \in {"FW_base", "FW"} /\ pc = "loop" /\ iters = 0
  /\ \E j \in 1..B.c : \E p \in 2..A.c :
       /\ OneHotAt(X, j, p)
       /\ CorDefined(1, j) /\ CorDefined(p, j) /\ CorGreater(A, B, p, 1, j)

\* the column loop of the current outer iteration has done the pass for
\* column k - 1, whose results are in last
PassDone == pc \in {"column", "check"} /\ k >= 2

\* g = grad.col(k) of that pass
PassG == Column(grad, k - 1)

\* x = X.col(k) as that pass read it: the column as the outer iteration
\* found it
PassX == Column(old_X, k - 1)

\* C13: in run_simplex_regression_FW_base and run_simplex_regression_FW the
\* index i1 of a pass is a row where g is minimal over all k rows.
C13_I1IsArgMin ==
  (fn \in {"FW_base", "FW"} /\ PassDone)
    => \A i \in 1..X.r : RLe(PassG[last.i1], PassG[i])

\* C14: in run_simplex_regression_FW_base and run_simplex_regression_FW the
\* index i2 of a pass is a row where x > 0, and g is minimal there among the
\* rows where x > 0.
C14_I2IsArgMinOnSupport ==
  (fn \in {"FW_base", "FW"} /\ PassDone)
    => /\ RLt(Zero, PassX[last.i2])
       /\ \A i \in 1..X.r : RLt(Zero, PassX[i]) => RLe(PassG[last.i2], PassG[i])

\* d_FW = e_i1 - x and d_A = x - e_i2 for the i1, i2 of the pass
PassDFW == [i \in 1..X.r |-> RSub(IF i = last.i1 THEN One ELSE Zero, PassX[i])]
PassDA == [i \in 1..X.r |-> RSub(PassX[i], IF i = last.i2 THEN One ELSE Zero)]

\* C15: in run_simplex_regression_FW_base and run_simplex_regression_FW the
\* direction of a pass is d_FW when dot(g, d_FW) < dot(g, d_A) and d_A when
\* dot(g, d_A) < dot(g, d_FW); when the two are equal it is d_A.
C15_MoreNegativeDirection ==
  (fn \in {"FW_base", "FW"} /\ PassDone)
    => LET fw == RDot(PassG, PassDFW, X.r)
           aw == RDot(PassG, PassDA, X.r)
       IN  /\ RLt(fw, aw) => (last.forward /\ last.d = PassDFW)
           /\ RLt(aw, fw) => (~last.forward /\ last.d = PassDA)
           /\ fw = aw => (~last.forward /\ last.d = PassDA)

\* C15 witness: a pass of run_simplex_regression_FW_base has taken the away
\* direction because its dot product was strictly the smaller one.
C15_Witness ==
  /\ fn = "FW_base" /\ PassDone /\ ~last.forward
  /\ RLt(RDot(PassG, PassDA, X.r), RDot(PassG, PassDFW, X.r))
  /\ last.d = PassDA /\ PassDA # PassDFW

\* x / (1 - x) for the entry of the row i2 that an away step drains
BoundAtI2 == RDiv(PassX[last.i2], RSub(One, PassX[last.i2]))

\* C16: in the three functions, a pass that takes the away direction has
\* alpha_max = x(i2) / (1 - x(i2)).
C16_AwayBoundFromI2 ==
  (PassDone /\ ~last.forward) => last.alpha_max = BoundAtI2

\* the step value of the schedule in the current outer iteration, as the
\* function at hand computes it
Schedule == IF fn = "FW_base" THEN StepBase(it) ELSE StepFW(it)

\* C17: in run_simplex_regression_FW_base and run_simplex_regression_FW the
\* step length of a pass is min(schedule value, alpha_max) and the column is
\* moved by that length along the direction of the pass.
C17_StepIsCapped ==
  (fn \in {"FW_base", "FW"} /\ PassDone)
    => /\ last.alpha = RMin(Schedule, last.alpha_max)
       /\ Column(X, k - 1) = Move(PassX, RMin(Schedule, last.alpha_max), last.d, X.r)

\* C18: the schedule value of outer iteration it is 2/(it+2) > 0: it is the
\* step length of every pass of run_simplex_regression_FW_base, and of every
\* forward pass (cap 1) of run_simplex_regression_FW.
C18_ScheduleValue ==
  (PassDone /\ (fn = "FW_base" \/ (fn = "FW" /\ last.forward)))
    => /\ last.alpha = Rat(2, it + 2)
       /\ RLt(Zero, last.alpha)

\* C19: in run_simplex_regression_FW a pass replaces its column of X by
\* x + alpha*d.
C19_ColumnUpdatedInPlace ==
  (fn = "FW" /\ PassDone)
    => Column(X, k - 1) = Move(PassX, last.alpha, last.d, X.r)

\* the denominator 1 - x(i) of the away bound: i is i2 in
\* run_simplex_regression_FW and i1 in the two other functions
AwayDenominator ==
  RSub(One, PassX[IF fn = "FW" THEN last.i2 ELSE last.i1])

\* C20: the away bound is never computed with a zero denominator.  It is
\* computed by the away passes of run_simplex_regression_FW_base and
\* run_simplex_regression_FW and for every column in
\* run_simplex_regression_FW_test1.
C20_NoDivisionByZero ==
  (PassDone /\ (fn = "FW_test1" \/ ~last.forward)) => AwayDenominator # Zero

\* C21: in run_simplex_regression_FW_base the direction of every pass sums to
\* zero, and every column of X sums to 1 before, during and after every
\* outer iteration, whatever the step length and also when an entry has
\* become negative.
C21_ColumnSumPreserved ==
  fn = "FW_base"
    => /\ pc \in {"loop", "column", "check", "post"} => ColumnsSumToOne(X)
       /\ PassDone => RSumTo(last.d, X.r) = Zero

\* C21 witness: an outer iteration of run_simplex_regression_FW_base has left
\* a negative entry in a column that still sums to 1.
C21_Witness ==
  /\ fn = "FW_base" /\ pc = "check"
  /\ \E j \in 1..X.c :
       /\ \E i \in 1..X.r : RLt(X.e[i][j], Zero)
       /\ ColSum(X, j) = One

\* the number of outer iterations the loop test it < max_iter allows
AllowedIterations == IF max_iter < 0 THEN 0 ELSE max_iter

\* C22: run_simplex_regression_FW never leaves its loop early: the change
\* measure of every outer iteration is 0, below a positive min_diff, and
\* still the loop ends only when the loop test fails, after exactly max_iter
\* outer iterations.
C22_FWNeverExitsEarly ==
  (fn = "FW" /\ A.r = B.r)
    => /\ pc = "check" => ChangeBase(old_X, X) = Zero
       /\ pc \in {"post", "done"}
            => /\ ~LoopTest(it, max_iter)
               /\ iters = AllowedIterations
               /\ arg_max_iter >= 0 => iters = arg_max_iter

\* C22 witness: run_simplex_regression_FW has returned after max_iter outer
\* iterations although min_diff was positive and X never changed.
C22_Witness ==
  /\ fn = "FW" /\ Returned /\ arg_max_iter = MaxIter /\ iters = arg_max_iter
  /\ RLt(Zero, min_diff) /\ ChangeBase(old_X, X) = Zero

\* C23: run_simplex_regression_FW_base called with min_diff <= 0 never leaves
\* its loop early: the change measure is >= 0, so the strict test
\* res < min_diff fails, and the loop ends only when the loop test fails,
\* after exactly max_iter outer iterations.
C23_NoEarlyExitWithoutTolerance ==
  (fn = "FW_base" /\ A.r = B.r /\ RLe(min_diff, Zero))
    => /\ pc = "check" => (RLe(Zero, ChangeBase(old_X, X)) /\ ~BelowMinDiff)
       /\ pc \in {"post", "done"}
            => /\ ~LoopTest(it, max_iter)
               /\ iters = AllowedIterations
               /\ arg_max_iter >= 0 => iters = arg_max_iter

\* C23 witness: with min_diff = 0, run_simplex_regression_FW_base goes on
\* with its loop after an outer iteration that did not change X.
C23_Witness ==
  /\ fn = "FW_base" /\ min_diff = Zero /\ pc = "loop"
  /\ it >= 1 /\ LoopTest(it, max_iter) /\ B.c = 1 /\ k = 2
  /\ \A i \in 1..X.r : last.d[i] = Zero

====
